---- MODULE Spec2Model ----
(***************************************************************************)
(* Model of the multi-agent coordination core of UCSN:                     *)
(*   backend/app/viewmodels/ml/policy_engine.py   (PolicyEngine)           *)
(*   backend/app/viewmodels/ml/multi_agent_orchestrator.py (agents,        *)
(*                                                 CoordinatorBrain)       *)
(*   backend/app/viewmodels/ml/command_hub.py     (context source,         *)
(*                                                 SIMULATION_STATE)       *)
(*                                                                         *)
(* Python dicts are functions on strings; a key a dict does not hold is a  *)
(* string outside its DOMAIN, and dict.get(k, d) is Get(dict, k, d).       *)
(* Floating point ratios against 6000 are compared by cross               *)
(* multiplication on integers (load / 6000 > 0.9  <=>  10*load > 9*6000).  *)
(* A reason text is the sequence of its fragments, so that appending to    *)
(* it is observable.                                                       *)
(***************************************************************************)
EXTENDS Integers, Sequences, FiniteSets, TLC

VARIABLES
    op,          \* the call that produced the current state
    context,     \* the context dict handed to the policy engine / agents
    actions,     \* the candidate action list handed to resolve_conflicts
    malformed,   \* the fields of actions[1] / context whose value has a wrong type
    validation,  \* return value of the last validate_action call
    validated,   \* resolve_conflicts: validated_actions (line 178-185)
    after_energy,\* resolve_conflicts: resolved after the energy_conflict rule
    after_zone,  \* resolve_conflicts: resolved after the zone_conflict rule
    resolved,    \* return value of resolve_conflicts
    rerun,       \* return value of resolve_conflicts(resolved, context)
    agents,      \* CoordinatorBrain.agents, in declaration order
    SIMULATION_STATE, \* command_hub.SIMULATION_STATE (module global)
    clock,       \* datetime.now(), in ticks
    hub,         \* what the collaborators returned to the last orchestrate
    ran,         \* names of the agents whose analyze the last orchestrate ran
    result,      \* outcome of the last orchestrate call
    result2,     \* outcome of the same call made once more
    request      \* arguments of the trigger_response call that produced the state

engine_vars == <<op, context, actions, malformed, validation, validated, after_energy,
                 after_zone, resolved, rerun>>
orch_vars == <<agents, SIMULATION_STATE, clock, hub, ran, result, result2,
               request>>
vars == <<engine_vars, orch_vars>>

(***************************************************************************)
(* Bounds of the model.                                                    *)
(***************************************************************************)
MaxActions == 3      \* longest candidate list handed to resolve_conflicts
MaxClock == 3        \* calls that read the clock in one explored session
MaxReconfig == 1     \* writes of a caller to CoordinatorBrain.agents
MaxTriggers == 5     \* trigger_response calls in one explored hub session

(***************************************************************************)
(* dict helpers                                                            *)
(***************************************************************************)
EmptyDict == [k \in {} |-> 0]

Get(d, k, default) == IF k \in DOMAIN d THEN d[k] ELSE default

\* {**d, k: v}
With(d, k, v) == (k :> v) @@ d

RECURSIVE SumImpact(_)
SumImpact(as) ==
    IF as = <<>> THEN 0
    ELSE Get(Head(as), "energy_impact_mw", 0) + SumImpact(Tail(as))

\* priority_order.get(x.get("priority", "LOW"), 3)
priority_order(a) ==
    LET p == Get(a, "priority", "LOW") IN
    CASE p = "CRITICAL" -> 0
      [] p = "HIGH"     -> 1
      [] p = "MEDIUM"   -> 2
      [] OTHER          -> 3

\* a faulty variant of the sort: the list is left in its order
SortByPriority_unsorted(as) == as

\* sorted(actions, key=priority_order): Python's sort is stable
SortByPriority(as) ==
    LET Rank(r) == SelectSeq(as, LAMBDA a : priority_order(a) = r)
    IN  Rank(0) \o Rank(1) \o Rank(2) \o Rank(3)

(***************************************************************************)
(* Action names.  `"COOLING" in name` is a substring test; over the names  *)
(* of the model it is decided by the table CoolingNames.                   *)
(***************************************************************************)
CoolingNames ==
    {"ACTIVATE_ALL_COOLING", "ACTIVATE_PRIORITY_COOLING", "ACTIVATE_COOLING",
     "DEACTIVATE_COOLING", "ACTIVATE_COOLING_WITH_AIR_FILTER"}

\* a faulty variant of the cooling test: equality with the registered pair member
HasCooling_exact(name) == name = "ACTIVATE_COOLING"

HasCooling(name) == name \in CoolingNames

max_capacity == 6000

\* context.get("energy_load", 0): the load the policy conditions read
policy_load(ctx) == Get(ctx, "energy_load", 0)

\* context.get("energy_load", 0): the load the energy_capacity check reads
safety_load(ctx) == Get(ctx, "energy_load", 0)

\* context.get("energy_load", 4500): current_load of the capacity stage
stage_current_load(ctx) == Get(ctx, "energy_load", 4500)

(***************************************************************************)
(* PolicyEngine._initialize_policies                                       *)
(***************************************************************************)
policies ==
    << [id |-> "energy_threshold", action |-> "BLOCK",
        rule |-> "Don't raise coastal shields while energy load is below 80% capacity",
        reason |-> "Energy capacity sufficient, barriers not needed"],
       [id |-> "cooling_during_peak", action |-> "DEFER",
        rule |-> "Don't trigger cooling nodes during peak energy load (>90%)",
        reason |-> "Peak energy load - defer cooling to avoid grid overload"],
       [id |-> "conflicting_barriers", action |-> "BLOCK",
        rule |-> "Don't raise and lower barriers simultaneously",
        reason |-> "Conflicting barrier actions detected"],
       [id |-> "emergency_override", action |-> "ALLOW",
        rule |-> "Allow critical actions even during high energy load if risk is critical",
        reason |-> "Critical risk overrides energy constraints"],
       [id |-> "aqi_cooling_conflict", action |-> "MODIFY",
        rule |-> "Don't activate cooling if AQI is critical (cooling may worsen air quality)",
        modification |-> TRUE,
        reason |-> "Cooling activated with air filtration due to high AQI"] >>

\* a faulty variant of the conditions: cooling_during_peak compares with 0.7
condition_peak_at_70(id, ctx, action) ==
    CASE id = "energy_threshold" ->
            /\ Get(action, "action", "") = "RAISE_COASTAL_BARRIERS"
            /\ 10 * policy_load(ctx) < 8 * max_capacity
      [] id = "cooling_during_peak" ->
            /\ HasCooling(Get(action, "action", ""))
            /\ 10 * policy_load(ctx) > 7 * max_capacity
      [] id = "conflicting_barriers" ->
            /\ Get(action, "action", "") = "LOWER_COASTAL_BARRIERS"
            /\ \E i \in DOMAIN Get(ctx, "pending_actions", <<>>) :
                  Get(Get(ctx, "pending_actions", <<>>)[i], "action", "")
                      = "RAISE_COASTAL_BARRIERS"
      [] id = "emergency_override" ->
            /\ Get(action, "priority", "") = "CRITICAL"
            /\ 10 * policy_load(ctx) > 9 * max_capacity
      [] id = "aqi_cooling_conflict" ->
            /\ HasCooling(Get(action, "action", ""))
            /\ Get(ctx, "aqi", 0) > 200

\* policy["condition"](context, action)
condition(id, ctx, action) ==
    CASE id = "energy_threshold" ->
            /\ Get(action, "action", "") = "RAISE_COASTAL_BARRIERS"
            /\ 10 * policy_load(ctx) < 8 * max_capacity
      [] id = "cooling_during_peak" ->
            /\ HasCooling(Get(action, "action", ""))
            /\ 10 * policy_load(ctx) > 9 * max_capacity
      [] id = "conflicting_barriers" ->
            /\ Get(action, "action", "") = "LOWER_COASTAL_BARRIERS"
            /\ \E i \in DOMAIN Get(ctx, "pending_actions", <<>>) :
                  Get(Get(ctx, "pending_actions", <<>>)[i], "action", "")
                      = "RAISE_COASTAL_BARRIERS"
      [] id = "emergency_override" ->
            /\ Get(action, "priority", "") = "CRITICAL"
            /\ 10 * policy_load(ctx) > 9 * max_capacity
      [] id = "aqi_cooling_conflict" ->
            /\ HasCooling(Get(action, "action", ""))
            /\ Get(ctx, "aqi", 0) > 200

\* a faulty variant of the transform: the name is replaced, the reason is
\* left as it was
modification_name_only(action) ==
    With(action, "action", "ACTIVATE_COOLING_WITH_AIR_FILTER")

\* policy["modification"](action) of aqi_cooling_conflict
modification(action) ==
    With(With(action, "action", "ACTIVATE_COOLING_WITH_AIR_FILTER"),
         "reason", Append(Get(action, "reason", <<>>), " (with air filtration)"))

(***************************************************************************)
(* PolicyEngine._initialize_safety_checks                                  *)
(* sensor_connectivity is held in percent (0.95 -> 95, 0.8 -> 80).         *)
(***************************************************************************)
safety_checks ==
    << [id |-> "energy_capacity", message |-> "Energy capacity check passed"],
       [id |-> "system_health", message |-> "System health check passed"],
       [id |-> "sensor_connectivity",
        message |-> "Sensor connectivity check passed"] >>

\* a faulty variant of the checks: the capacity check admits a full grid
check_inclusive(id, ctx) ==
    CASE id = "energy_capacity" -> safety_load(ctx) <= max_capacity
      [] id = "system_health" ->
            Get(ctx, "system_health", "operational") = "operational"
      [] id = "sensor_connectivity" ->
            Get(ctx, "sensor_connectivity", 95) > 80

check(id, ctx) ==
    CASE id = "energy_capacity" -> safety_load(ctx) < max_capacity
      [] id = "system_health" ->
            Get(ctx, "system_health", "operational") = "operational"
      [] id = "sensor_connectivity" ->
            Get(ctx, "sensor_connectivity", 95) > 80

safety_results(ctx) ==
    [i \in 1..Len(safety_checks) |->
        IF ~check(safety_checks[i].id, ctx)
        THEN [check_id |-> safety_checks[i].id, passed |-> FALSE,
              message |-> "Safety check failed"]
        ELSE [check_id |-> safety_checks[i].id, passed |-> TRUE,
              message |-> safety_checks[i].message]]

(***************************************************************************)
(* PolicyEngine.validate_action                                            *)
(* The loop over the policies, from policy i on.  A DEFER match returns    *)
(* at once; ALLOW has no branch in the loop.                               *)
(***************************************************************************)
\* a faulty variant of the loop: a DEFER match is recorded like a BLOCK match
\* and the loop goes on
RECURSIVE policy_loop_defer_continues(_, _, _, _, _)
policy_loop_defer_continues(i, action, ctx, violations, modifications) ==
    IF i > Len(policies)
    THEN [valid |-> violations = <<>>
                    /\ \A j \in 1..Len(safety_checks) : safety_results(ctx)[j].passed,
          violations |-> violations,
          modifications |-> modifications,
          safety_checks |-> safety_results(ctx),
          action |-> action]
    ELSE LET policy == policies[i] IN
         IF ~condition(policy.id, ctx, action)
         THEN policy_loop_defer_continues(i + 1, action, ctx, violations,
                                          modifications)
         ELSE CASE policy.action \in {"BLOCK", "DEFER"} ->
                     policy_loop_defer_continues(i + 1, action, ctx,
                         Append(violations, [policy_id |-> policy.id,
                                             rule |-> policy.rule,
                                             reason |-> policy.reason]),
                         modifications)
                [] policy.action = "MODIFY" /\ "modification" \in DOMAIN policy ->
                     policy_loop_defer_continues(i + 1, modification(action), ctx,
                         violations,
                         Append(modifications, [policy_id |-> policy.id,
                                                modification |-> policy.reason]))
                [] OTHER ->
                     policy_loop_defer_continues(i + 1, action, ctx, violations,
                                                 modifications)

RECURSIVE policy_loop(_, _, _, _, _)
policy_loop(i, action, ctx, violations, modifications) ==
    IF i > Len(policies)
    THEN [valid |-> violations = <<>>
                    /\ \A j \in 1..Len(safety_checks) : safety_results(ctx)[j].passed,
          violations |-> violations,
          modifications |-> modifications,
          safety_checks |-> safety_results(ctx),
          action |-> action]
    ELSE LET policy == policies[i] IN
         IF ~condition(policy.id, ctx, action)
         THEN policy_loop(i + 1, action, ctx, violations, modifications)
         ELSE CASE policy.action = "BLOCK" ->
                     policy_loop(i + 1, action, ctx,
                         Append(violations, [policy_id |-> policy.id,
                                             rule |-> policy.rule,
                                             reason |-> policy.reason]),
                         modifications)
                [] policy.action = "DEFER" ->
                     [valid |-> FALSE, action |-> "DEFER",
                      reason |-> policy.reason]
                [] policy.action = "MODIFY" /\ "modification" \in DOMAIN policy ->
                     policy_loop(i + 1, modification(action), ctx, violations,
                         Append(modifications, [policy_id |-> policy.id,
                                                modification |-> policy.reason]))
                [] OTHER ->
                     policy_loop(i + 1, action, ctx, violations, modifications)

validate_action(action, ctx) == policy_loop(1, action, ctx, <<>>, <<>>)

(***************************************************************************)
(* PolicyEngine._resolve_energy_conflict                                   *)
(***************************************************************************)
\* a faulty variant of the loop: no break after a CRITICAL action is clipped
RECURSIVE energy_loop_no_break(_, _, _, _)
energy_loop_no_break(sorted_actions, res, cumulative_impact, available) ==
    IF sorted_actions = <<>> THEN res
    ELSE LET action == Head(sorted_actions)
             impact == Get(action, "energy_impact_mw", 0)
         IN  IF cumulative_impact + impact <= available
             THEN energy_loop_no_break(Tail(sorted_actions), Append(res, action),
                                       cumulative_impact + impact, available)
             ELSE IF Get(action, "priority", "") = "CRITICAL"
                  THEN energy_loop_no_break(Tail(sorted_actions),
                           Append(res,
                               With(With(action, "energy_impact_mw",
                                         available - cumulative_impact),
                                    "scope_reduced", TRUE)),
                           available, available)
                  ELSE energy_loop_no_break(Tail(sorted_actions), res,
                                            cumulative_impact, available)

\* a faulty variant of the loop: it ends at the first action that overflows,
\* whatever its priority
RECURSIVE energy_loop_stops(_, _, _, _)
energy_loop_stops(sorted_actions, res, cumulative_impact, available) ==
    IF sorted_actions = <<>> THEN res
    ELSE LET action == Head(sorted_actions)
             impact == Get(action, "energy_impact_mw", 0)
         IN  IF cumulative_impact + impact <= available
             THEN energy_loop_stops(Tail(sorted_actions), Append(res, action),
                                    cumulative_impact + impact, available)
             ELSE IF Get(action, "priority", "") = "CRITICAL"
                  THEN Append(res,
                           With(With(action, "energy_impact_mw",
                                     available - cumulative_impact),
                                "scope_reduced", TRUE))
                  ELSE res

\* a faulty variant of the loop: the action that overflows is clipped
\* whatever its priority
RECURSIVE energy_loop_clips_any(_, _, _, _)
energy_loop_clips_any(sorted_actions, res, cumulative_impact, available) ==
    IF sorted_actions = <<>> THEN res
    ELSE LET action == Head(sorted_actions)
             impact == Get(action, "energy_impact_mw", 0)
         IN  IF cumulative_impact + impact <= available
             THEN energy_loop_clips_any(Tail(sorted_actions), Append(res, action),
                                        cumulative_impact + impact, available)
             ELSE Append(res,
                      With(With(action, "energy_impact_mw",
                                available - cumulative_impact),
                           "scope_reduced", TRUE))

\* the loop of lines 212-223 over the priority-sorted actions
RECURSIVE energy_loop(_, _, _, _)
energy_loop(sorted_actions, res, cumulative_impact, available) ==
    IF sorted_actions = <<>> THEN res
    ELSE LET action == Head(sorted_actions)
             impact == Get(action, "energy_impact_mw", 0)
         IN  IF cumulative_impact + impact <= available
             THEN energy_loop(Tail(sorted_actions), Append(res, action),
                              cumulative_impact + impact, available)
             ELSE IF Get(action, "priority", "") = "CRITICAL"
                  THEN \* reduce scope, keep the action, break
                       Append(res,
                           With(With(action, "energy_impact_mw",
                                     available - cumulative_impact),
                                "scope_reduced", TRUE))
                  ELSE \* not appended; the loop goes on
                       energy_loop(Tail(sorted_actions), res,
                                   cumulative_impact, available)

\* lines 200-225, for a given available capacity
energy_conflict(as, available) ==
    IF SumImpact(as) <= available THEN as
    ELSE energy_loop(SortByPriority(as), <<>>, 0, available)

resolve_energy_conflict(as, ctx) ==
    LET available == max_capacity - stage_current_load(ctx)
    IN  energy_conflict(as, available)

(***************************************************************************)
(* PolicyEngine._resolve_zone_conflict                                     *)
(***************************************************************************)
zone_of(a) == Get(a, "zones", "unknown")

\* keys of zone_actions in insertion order (first occurrence of each zone)
RECURSIVE zone_keys(_, _)
zone_keys(as, keys) ==
    IF as = <<>> THEN keys
    ELSE IF \E i \in DOMAIN keys : keys[i] = zone_of(Head(as))
         THEN zone_keys(Tail(as), keys)
         ELSE zone_keys(Tail(as), Append(keys, zone_of(Head(as))))

\* a faulty variant of the zone stage: a group keeps every member of the
\* best priority, instead of the first such member only
resolve_zone_conflict_ties(as, ctx) ==
    LET best(a) == \A i \in DOMAIN as :
                      zone_of(as[i]) = zone_of(a)
                          => priority_order(a) <= priority_order(as[i])
    IN  SelectSeq(as, best)

\* a faulty variant of the zone stage: a group keeps its first member,
\* whatever its priority
resolve_zone_conflict_first(as, ctx) ==
    LET keys == zone_keys(as, <<>>)
    IN  [i \in 1..Len(keys) |->
            SelectSeq(as, LAMBDA a : zone_of(a) = keys[i])[1]]

resolve_zone_conflict(as, ctx) ==
    LET keys == zone_keys(as, <<>>)
        zone_actions_list(z) == SelectSeq(as, LAMBDA a : zone_of(a) = z)
    IN  [i \in 1..Len(keys) |->
            IF Len(zone_actions_list(keys[i])) = 1
            THEN zone_actions_list(keys[i])[1]
            ELSE SortByPriority(zone_actions_list(keys[i]))[1]]

(***************************************************************************)
(* PolicyEngine._resolve_action_conflict                                   *)
(***************************************************************************)
conflicts ==
    { <<"RAISE_COASTAL_BARRIERS", "LOWER_COASTAL_BARRIERS">>,
      <<"ACTIVATE_COOLING", "DEACTIVATE_COOLING">> }

\* a faulty variant of the loop body: conflict_found is not set, so that an
\* action appended inside the inner loop is appended at line 279 again
conflict_step_twice(action, as, res, seen_conflicts) ==
    LET action_name == Get(action, "action", "")
        other_action(pair) ==
            SelectSeq(as, LAMBDA a :
                /\ Get(a, "action", "") \in {pair[1], pair[2]}
                /\ Get(a, "action", "") # action_name)
        conflict_key(pair) ==
            {action_name, Get(other_action(pair)[1], "action", "")}
        won == { pair \in conflicts :
                   /\ action_name \in {pair[1], pair[2]}
                   /\ other_action(pair) # <<>>
                   /\ conflict_key(pair) \notin seen_conflicts
                   /\ priority_order(action)
                         <= priority_order(other_action(pair)[1]) }
    IN  IF won # {}
        THEN [resolved |-> Append(Append(res, action), action),
              seen |-> seen_conflicts \cup {conflict_key(CHOOSE p \in won : TRUE)}]
        ELSE [resolved |-> Append(res, action), seen |-> seen_conflicts]

\* the body of the outer loop (lines 261-279) for one action: the new
\* value of <<resolved, seen_conflicts>>
conflict_step(action, as, res, seen_conflicts) ==
    LET action_name == Get(action, "action", "")
        other_action(pair) ==
            SelectSeq(as, LAMBDA a :
                /\ Get(a, "action", "") \in {pair[1], pair[2]}
                /\ Get(a, "action", "") # action_name)
        conflict_key(pair) ==
            {action_name, Get(other_action(pair)[1], "action", "")}
        \* the pair at which the inner loop appends and breaks
        won == { pair \in conflicts :
                   /\ action_name \in {pair[1], pair[2]}
                   /\ other_action(pair) # <<>>
                   /\ conflict_key(pair) \notin seen_conflicts
                   /\ priority_order(action)
                         <= priority_order(other_action(pair)[1]) }
    IN  IF won # {}
        THEN \* conflict_found = True: appended inside the inner loop
             [resolved |-> Append(res, action),
              seen |-> seen_conflicts \cup {conflict_key(CHOOSE p \in won : TRUE)}]
        ELSE \* conflict_found stays False: appended at line 279
             [resolved |-> Append(res, action), seen |-> seen_conflicts]

RECURSIVE conflict_loop(_, _, _, _)
conflict_loop(i, as, res, seen_conflicts) ==
    IF i > Len(as) THEN res
    ELSE LET st == conflict_step(as[i], as, res, seen_conflicts)
         IN  conflict_loop(i + 1, as, st.resolved, st.seen)

resolve_action_conflict(as, ctx) == conflict_loop(1, as, <<>>, {})

(***************************************************************************)
(* PolicyEngine.resolve_conflicts                                          *)
(***************************************************************************)
\* a faulty variant of the filter: every action that was not deferred is
\* kept, whatever its valid flag
RECURSIVE validated_actions_unfiltered(_, _)
validated_actions_unfiltered(as, ctx) ==
    IF as = <<>> THEN <<>>
    ELSE LET v == validate_action(Head(as), ctx)
         IN  IF "violations" \in DOMAIN v
             THEN <<v.action>> \o validated_actions_unfiltered(Tail(as), ctx)
             ELSE validated_actions_unfiltered(Tail(as), ctx)

RECURSIVE validated_actions(_, _)
validated_actions(as, ctx) ==
    IF as = <<>> THEN <<>>
    ELSE LET v == validate_action(Head(as), ctx)
         IN  IF v.valid
             THEN <<v.action>> \o validated_actions(Tail(as), ctx)
             ELSE validated_actions(Tail(as), ctx)

resolve_conflicts(as, ctx) ==
    resolve_action_conflict(
        resolve_zone_conflict(
            resolve_energy_conflict(validated_actions(as, ctx), ctx), ctx), ctx)

(***************************************************************************)
(* The arguments as the caller holds them after validate_action or         *)
(* resolve_conflicts returned.  The calls build new lists (line 178,       *)
(* sorted() at 207, the resolved lists of 209, 237 and 257) and new dicts  *)
(* ({**action, ...} at lines 69-73 and 221; line 141 rebinds the local     *)
(* name); no statement assigns to an element of the candidate list, to a   *)
(* key of a candidate or to a key of the context.                          *)
(***************************************************************************)
\* a faulty variant: the MODIFY transform edits the candidate in place
candidates_after_in_place(as, ctx) ==
    [i \in DOMAIN as |->
        LET v == validate_action(as[i], ctx)
        IN  IF "violations" \in DOMAIN v THEN v.action ELSE as[i]]

candidates_after(as, ctx) == as

context_after(as, ctx) == ctx

(***************************************************************************)
(* Values of a wrong type.  The set bad names the fields whose value is    *)
(* not of the type the predicates expect: "action.action" (a name that is  *)
(* no str, such as None or 7), "context.energy_load" and "context.aqi" (a  *)
(* str where a number is expected).  The record then holds a placeholder   *)
(* at that field, and every operation Python refuses on such a value       *)
(* raises TypeError:  "COOLING" in None,  "high" / 6000,  "bad" > 200.     *)
(* `==` against a str is False and raises nothing; `and` short-circuits.   *)
(***************************************************************************)
\* policy["condition"](context, action) raises TypeError
condition_raises(id, ctx, action, bad) ==
    CASE id = "energy_threshold" ->
            /\ "action.action" \notin bad
            /\ Get(action, "action", "") = "RAISE_COASTAL_BARRIERS"
            /\ "context.energy_load" \in bad
      [] id = "cooling_during_peak" ->
            \/ "action.action" \in bad
            \/ /\ HasCooling(Get(action, "action", ""))
               /\ "context.energy_load" \in bad
      [] id = "conflicting_barriers" -> FALSE
      [] id = "emergency_override" ->
            /\ Get(action, "priority", "") = "CRITICAL"
            /\ "context.energy_load" \in bad
      [] id = "aqi_cooling_conflict" ->
            \/ "action.action" \in bad
            \/ /\ HasCooling(Get(action, "action", ""))
               /\ "context.aqi" \in bad

\* check["check"](context) raises TypeError
check_raises(id, ctx, bad) ==
    id = "energy_capacity" /\ "context.energy_load" \in bad

Raised == [raised |-> "TypeError"]

\* validate_action(action, context) raises on such values: the loop of
\* lines 125-146 calls each condition, and lines 150-151 each check, with
\* no try/except; from policy i on
RECURSIVE validate_raises_from(_, _, _, _)
validate_raises_from(i, action, ctx, bad) ==
    IF i > Len(policies)
    THEN \E j \in 1..Len(safety_checks) :
            check_raises(safety_checks[j].id, ctx, bad)
    ELSE LET policy == policies[i] IN
         IF condition_raises(policy.id, ctx, action, bad) THEN TRUE
         ELSE IF ~condition(policy.id, ctx, action)
         THEN validate_raises_from(i + 1, action, ctx, bad)
         ELSE CASE policy.action = "DEFER" -> FALSE   \* returns at line 134
                [] policy.action = "MODIFY" /\ "modification" \in DOMAIN policy ->
                     validate_raises_from(i + 1, modification(action), ctx, bad)
                [] OTHER -> validate_raises_from(i + 1, action, ctx, bad)

\* the outcome of validate_action: Raised, or the value it returns
validate_outcome(action, ctx, bad) ==
    IF validate_raises_from(1, action, ctx, bad) THEN Raised
    ELSE validate_action(action, ctx)

\* resolve_conflicts raises: in validation at line 180, or in the capacity
\* stage at line 198 (6000 - current_load)
resolve_raises(as, ctx, bad) ==
    \/ \E i \in DOMAIN as : validate_raises_from(1, as[i], ctx, bad)
    \/ "context.energy_load" \in bad

(***************************************************************************)
(* Agents (multi_agent_orchestrator.py).  Temperatures are whole degrees.  *)
(***************************************************************************)
Action(name, priority, zones, impact, reason) ==
    [action |-> name, priority |-> priority, zones |-> zones,
     energy_impact_mw |-> impact, reason |-> reason]

\* HeatAgent._get_actions
HeatAgent_get_actions(risk_level, temp) ==
    IF risk_level = "Critical"
    THEN << Action("ACTIVATE_ALL_COOLING", "CRITICAL", "All hotspot zones", 300,
                   <<"Temperature ", ToString(temp), "C exceeds critical threshold">>) >>
    ELSE IF risk_level = "High"
    THEN << Action("ACTIVATE_PRIORITY_COOLING", "HIGH", "High-priority zones", 150,
                   <<"Temperature ", ToString(temp), "C approaching critical">>) >>
    ELSE <<>>

\* forecast and forecast.get("statistics", {}).get("maximum", 0)
forecast_maximum(ctx) ==
    LET forecast == Get(ctx, "temp_forecast", EmptyDict)
    IN  Get(Get(forecast, "statistics", EmptyDict), "maximum", 0)

\* a faulty variant of the analysis: the thresholds 32, 35 and 38 belong to
\* the higher level
HeatAgent_analyze_inclusive(ctx) ==
    LET temp == Get(ctx, "temperature", 30)
        anomalies == Get(ctx, "temp_anomalies", EmptyDict)
        risk_level ==
            IF temp >= 38 \/ forecast_maximum(ctx) >= 38 THEN "Critical"
            ELSE IF temp >= 35 \/ forecast_maximum(ctx) >= 35 THEN "High"
            ELSE IF temp >= 32 THEN "Medium"
            ELSE "Low"
    IN  [agent |-> "Heat Agent", risk_level |-> risk_level,
         current_temp |-> temp,
         anomalies_detected |-> Get(anomalies, "anomaly_count", 0),
         recommended_actions |-> HeatAgent_get_actions(risk_level, temp)]

\* HeatAgent.analyze
HeatAgent_analyze(ctx) ==
    LET temp == Get(ctx, "temperature", 30)
        anomalies == Get(ctx, "temp_anomalies", EmptyDict)
        risk_level ==
            IF temp > 38 \/ forecast_maximum(ctx) > 38 THEN "Critical"
            ELSE IF temp > 35 \/ forecast_maximum(ctx) > 35 THEN "High"
            ELSE IF temp > 32 THEN "Medium"
            ELSE "Low"
    IN  [agent |-> "Heat Agent", risk_level |-> risk_level,
         current_temp |-> temp,
         anomalies_detected |-> Get(anomalies, "anomaly_count", 0),
         recommended_actions |-> HeatAgent_get_actions(risk_level, temp)]

\* FloodAgent._get_actions
FloodAgent_get_actions(risk_level) ==
    IF risk_level = "High"
    THEN << Action("RAISE_COASTAL_BARRIERS", "CRITICAL", "Coastal zones", 200,
                   <<"High flood risk detected">>) >>
    ELSE IF risk_level = "Medium"
    THEN << Action("PREPARE_BARRIERS", "MEDIUM", "Coastal zones", 0,
                   <<"Medium flood risk - prepare for activation">>) >>
    ELSE <<>>

\* FloodAgent.analyze
FloodAgent_analyze(ctx) ==
    LET flood_risk == Get(ctx, "flood_risk", "Low")
        forecast == Get(ctx, "flood_forecast", EmptyDict)
        anomalies == Get(ctx, "rainfall_anomalies", EmptyDict)
        risk_level ==
            IF Get(Get(forecast, "risk_assessment", EmptyDict),
                   "overall_risk", "") = "High"
            THEN "High" ELSE flood_risk
    IN  [agent |-> "Flood Agent", risk_level |-> risk_level,
         current_risk |-> flood_risk,
         anomalies_detected |-> Get(anomalies, "anomaly_count", 0),
         recommended_actions |-> FloodAgent_get_actions(risk_level)]

\* AQIAgent._get_actions
AQIAgent_get_actions(risk_level, aqi) ==
    IF risk_level = "Critical"
    THEN << Action("ACTIVATE_ALL_AIR_PURIFIERS", "CRITICAL", "All zones", 250,
                   <<"AQI ", ToString(aqi), " exceeds critical threshold">>) >>
    ELSE IF risk_level = "High"
    THEN << Action("ACTIVATE_PRIORITY_PURIFIERS", "HIGH", "High-traffic zones", 150,
                   <<"AQI ", ToString(aqi), " is unhealthy">>) >>
    ELSE <<>>

\* AQIAgent.analyze
AQIAgent_analyze(ctx) ==
    LET aqi == Get(ctx, "aqi", 80)
        risk_level ==
            IF aqi > 200 THEN "Critical"
            ELSE IF aqi > 150 THEN "High"
            ELSE IF aqi > 100 THEN "Medium"
            ELSE "Low"
    IN  [agent |-> "AQI Agent", risk_level |-> risk_level,
         current_aqi |-> aqi,
         recommended_actions |-> AQIAgent_get_actions(risk_level, aqi)]

\* utilization * 100 to one decimal, in tenths of a percent
utilization_tenths(current_load) == (current_load + 3) \div 6

\* EnergyAgent._get_actions
EnergyAgent_get_actions(risk_level, current_load) ==
    LET pct == <<ToString(utilization_tenths(current_load) \div 10), ".",
                 ToString(utilization_tenths(current_load) % 10)>>
    IN  IF risk_level = "Critical"
        THEN << Action("REDUCE_NON_CRITICAL_LOAD", "CRITICAL", "All zones", -200,
                       <<"Grid utilization ">> \o pct \o <<"% - critical">>) >>
        ELSE IF risk_level = "High"
        THEN << Action("OPTIMIZE_ENERGY_USAGE", "MEDIUM", "All zones", -100,
                       <<"Grid utilization ">> \o pct \o <<"% - high">>) >>
        ELSE <<>>

\* EnergyAgent.analyze
EnergyAgent_analyze(ctx) ==
    LET current_load == Get(ctx, "energy_load", 4500)
        risk_level ==
            IF 100 * current_load > 95 * max_capacity THEN "Critical"
            ELSE IF 100 * current_load > 85 * max_capacity THEN "High"
            ELSE IF 100 * current_load > 75 * max_capacity THEN "Medium"
            ELSE "Low"
    IN  [agent |-> "Energy Agent", risk_level |-> risk_level,
         current_load_mw |-> current_load,
         utilization |-> utilization_tenths(current_load),
         available_capacity_mw |-> max_capacity - current_load,
         recommended_actions |-> EnergyAgent_get_actions(risk_level, current_load)]

\* Agent.__init__ and the four subclasses' constructors
Agent(class, name, priority) ==
    [class |-> class, name |-> name, priority |-> priority, status |-> "active"]

\* CoordinatorBrain.__init__
CoordinatorBrain_agents ==
    << Agent("HeatAgent", "Heat Agent", 1), Agent("FloodAgent", "Flood Agent", 2),
       Agent("AQIAgent", "AQI Agent", 3), Agent("EnergyAgent", "Energy Agent", 4) >>

\* agent.analyze raises: the base class Agent raises NotImplementedError
analyze_raises(agent) == agent.class = "Agent"

\* agent.analyze(context), dispatched on the agent's class
analyze(agent, ctx) ==
    CASE agent.class = "HeatAgent"   -> HeatAgent_analyze(ctx)
      [] agent.class = "FloodAgent"  -> FloodAgent_analyze(ctx)
      [] agent.class = "AQIAgent"    -> AQIAgent_analyze(ctx)
      [] agent.class = "EnergyAgent" -> EnergyAgent_analyze(ctx)

(***************************************************************************)
(* CoordinatorBrain.orchestrate                                            *)
(***************************************************************************)
\* sorted(self.agents, key=lambda x: x.priority): stable
RECURSIVE sort_agents(_, _)
sort_agents(ags, prios) ==
    IF prios = {} THEN <<>>
    ELSE LET m == CHOOSE x \in prios : \A y \in prios : x <= y
         IN  SelectSeq(ags, LAMBDA a : a.priority = m)
               \o sort_agents(ags, prios \ {m})

sorted_agents(ags) == sort_agents(ags, {ags[i].priority : i \in DOMAIN ags})

\* the agents the loop of line 246 visits, in order
visited_agents(ags) == sorted_agents(ags)

\* the loop of lines 246-249 over the agents `order`:
\* [raised, ran, agent_analyses, all_actions]
RECURSIVE agent_loop(_, _, _, _, _)
agent_loop(order, ctx, names, agent_analyses, all_actions) ==
    IF order = <<>>
    THEN [raised |-> FALSE, ran |-> names, agent_analyses |-> agent_analyses,
          all_actions |-> all_actions]
    ELSE LET agent == Head(order) IN
         IF analyze_raises(agent)
         THEN [raised |-> TRUE, ran |-> Append(names, agent.name),
               agent_analyses |-> agent_analyses, all_actions |-> all_actions]
         ELSE LET analysis == analyze(agent, ctx) IN
              agent_loop(Tail(order), ctx, Append(names, agent.name),
                         Append(agent_analyses, analysis),
                         all_actions \o Get(analysis, "recommended_actions", <<>>))

\* next((ag for ag in agent_analyses if ag["agent"] == a.name), {})
analysis_of(agent_analyses, name) ==
    LET hits == SelectSeq(agent_analyses, LAMBDA ag : ag.agent = name)
    IN  IF hits = <<>> THEN EmptyDict ELSE hits[1]

count_priority(as, p) ==
    Len(SelectSeq(as, LAMBDA a : Get(a, "priority", "") = p))

\* a faulty variant of the result: conflicts counted against the validated
\* actions instead of the candidates
orchestrate_result_validated(city, ctx, ags, now) ==
    LET run == agent_loop(visited_agents(ags), ctx, <<>>, <<>>, <<>>)
        resolved_actions == resolve_conflicts(run.all_actions, ctx)
    IN  IF run.raised THEN [raised |-> "NotImplementedError"]
        ELSE [city |-> city,
              timestamp |-> now,
              orchestration_status |-> "active",
              agents |-> [i \in 1..Len(ags) |->
                            [name |-> ags[i].name, priority |-> ags[i].priority,
                             status |-> ags[i].status,
                             analysis |-> analysis_of(run.agent_analyses, ags[i].name)]],
              conflicts_detected |->
                 Len(validated_actions(run.all_actions, ctx)) - Len(resolved_actions),
              resolved_actions |-> resolved_actions,
              total_energy_impact_mw |-> SumImpact(resolved_actions),
              coordination_summary |->
                 [active_agents |->
                     Len(SelectSeq(ags, LAMBDA a : a.status = "active")),
                  total_recommendations |-> Len(resolved_actions),
                  critical_actions |-> count_priority(resolved_actions, "CRITICAL"),
                  high_priority_actions |-> count_priority(resolved_actions, "HIGH")]]

\* lines 242-282: the value orchestrate returns for a built context, or
\* the exception that leaves it
orchestrate_result(city, ctx, ags, now) ==
    LET run == agent_loop(visited_agents(ags), ctx, <<>>, <<>>, <<>>)
        resolved_actions == resolve_conflicts(run.all_actions, ctx)
    IN  IF run.raised THEN [raised |-> "NotImplementedError"]
        ELSE [city |-> city,
              timestamp |-> now,
              orchestration_status |-> "active",
              agents |-> [i \in 1..Len(ags) |->
                            [name |-> ags[i].name, priority |-> ags[i].priority,
                             status |-> ags[i].status,
                             analysis |-> analysis_of(run.agent_analyses, ags[i].name)]],
              conflicts_detected |-> Len(run.all_actions) - Len(resolved_actions),
              resolved_actions |-> resolved_actions,
              total_energy_impact_mw |-> SumImpact(resolved_actions),
              coordination_summary |->
                 [active_agents |->
                     Len(SelectSeq(ags, LAMBDA a : a.status = "active")),
                  total_recommendations |-> Len(resolved_actions),
                  critical_actions |-> count_priority(resolved_actions, "CRITICAL"),
                  high_priority_actions |-> count_priority(resolved_actions, "HIGH")]]

(***************************************************************************)
(* command_hub.get_command_hub_status and the context orchestrate builds   *)
(* from it (lines 225-240).  What the weather provider, the wall clock and *)
(* the random generators deliver is an input record w:                     *)
(*   avg_temp, rainfall_1h, visibility - the weather data                  *)
(*   hour                              - datetime.now().hour               *)
(*   rand                              - random.randint(-50, 50)           *)
(*   temp_max, flood_overall           - the (randomised) forecasts        *)
(***************************************************************************)
base_load == 4500

\* a faulty variant of the demand: the load of triggered actions left out
peak_demand_no_extra(avg_temp, extra_load, rand) ==
    (IF avg_temp > 25 THEN base_load + 225 * (avg_temp - 25) ELSE base_load) + rand

\* int(base_load * temp_factor + SIMULATION_STATE["extra_load"] + randint)
peak_demand(avg_temp, extra_load, rand) ==
    (IF avg_temp > 25 THEN base_load + 225 * (avg_temp - 25) ELSE base_load)
      + extra_load + rand

\* tide_level = 1.0 + 1.5 * sin(hour * pi / 6), in hundredths of a metre,
\* tabulated for the hours of the model (3 h: 2.50 m, 9 h: -0.50 m)
tide_level(hour) == IF hour = 3 THEN 250 ELSE IF hour = 9 THEN -50 ELSE 100

\* lines 55-59 of command_hub.py
hub_flood_risk(hour, rainfall_1h) ==
    IF rainfall_1h > 30 \/ (tide_level(hour) > 240 /\ rainfall_1h > 5) THEN "High"
    ELSE IF rainfall_1h > 10 \/ tide_level(hour) > 220 THEN "Medium"
    ELSE "Low"

\* lines 104-113 of command_hub.py
hub_aqi(hour, visibility) ==
    80 + (IF visibility < 2000 THEN 50 ELSE 0)
       + (IF visibility < 1000 THEN 80 ELSE 0)
       + (IF (8 <= hour /\ hour <= 10) \/ (17 <= hour /\ hour <= 20) THEN 40 ELSE 0)

\* orchestrate, lines 225-240
build_context(w, sim) ==
    [temperature |-> w.avg_temp,
     flood_risk |-> hub_flood_risk(w.hour, w.rainfall_1h),
     aqi |-> hub_aqi(w.hour, w.visibility),
     energy_load |-> peak_demand(w.avg_temp, sim.extra_load, w.rand),
     temp_forecast |-> [statistics |-> [maximum |-> w.temp_max]],
     flood_forecast |-> [risk_assessment |-> [overall_risk |-> w.flood_overall]],
     temp_anomalies |-> [anomaly_count |-> 0],
     rainfall_anomalies |-> [anomaly_count |-> 0]]

(***************************************************************************)
(* command_hub.trigger_response                                            *)
(***************************************************************************)
load_impact(system) ==
    CASE system = "Cooling" -> 150
      [] system = "Flood"   -> 300
      [] system = "Air"     -> 200
      [] OTHER              -> 0

\* a faulty variant of the update: a call whose description is already
\* listed adds no load
trigger_state_once(sim, system, action) ==
    LET intervention_desc == <<system, action>>
        listed == \E i \in DOMAIN sim.active_interventions :
                      sim.active_interventions[i] = intervention_desc
        inserted == <<intervention_desc>> \o sim.active_interventions
    IN  IF listed THEN sim
        ELSE [extra_load |-> sim.extra_load + load_impact(system),
              active_interventions |->
                 SubSeq(inserted, 1, IF Len(inserted) < 3 THEN Len(inserted) ELSE 3)]

trigger_state(sim, system, action) ==
    LET intervention_desc == <<system, action>>
        listed == \E i \in DOMAIN sim.active_interventions :
                      sim.active_interventions[i] = intervention_desc
        inserted == <<intervention_desc>> \o sim.active_interventions
    IN  [extra_load |-> sim.extra_load + load_impact(system),
         active_interventions |->
            IF listed THEN sim.active_interventions
            ELSE SubSeq(inserted, 1, IF Len(inserted) < 3 THEN Len(inserted) ELSE 3)]

(***************************************************************************)
(* Inputs of the model                                                     *)
(***************************************************************************)
\* candidate actions: what the four agents emit, and three actions a
\* caller of resolve_conflicts supplies
Pool ==
    { HeatAgent_get_actions("Critical", 39)[1],
      HeatAgent_get_actions("High", 36)[1],
      FloodAgent_get_actions("High")[1],
      FloodAgent_get_actions("Medium")[1],
      AQIAgent_get_actions("Critical", 250)[1],
      AQIAgent_get_actions("High", 170)[1],
      EnergyAgent_get_actions("Critical", 5800)[1],
      EnergyAgent_get_actions("High", 5200)[1],
      Action("LOWER_COASTAL_BARRIERS", "LOW", "Harbour", 50, <<"Tide receding">>),
      Action("ACTIVATE_COOLING", "HIGH", "Central", 100, <<"Heat advisory">>),
      Action("DEACTIVATE_COOLING", "LOW", "Suburbs", -50, <<"Evening cool-down">>) }

CandidateLists == UNION { [1..n -> Pool] : n \in 0..MaxActions }

Loads == {4500, 5000, 5500, 5800}
Aqis == {80, 250}

\* one optional context field beyond energy_load and aqi
Extras ==
    { EmptyDict,
      [pending_actions |-> << FloodAgent_get_actions("High")[1] >>],
      [system_health |-> "degraded"],
      [sensor_connectivity |-> 50],
      [max_energy_capacity |-> 6500] }

Contexts ==
    { [energy_load |-> l, aqi |-> q] : l \in Loads, q \in Aqis }
      \cup { [energy_load |-> lq[1], aqi |-> lq[2]] @@ x :
                lq \in {<<5000, 80>>, <<5800, 250>>}, x \in Extras }
      \cup { EmptyDict, [energy_load |-> 6000, aqi |-> 80] }

Weather ==
    [avg_temp : {24, 31, 36}, hour : {3, 9}, rainfall_1h : {0, 12},
     visibility : {10000, 500}]

Draws == [rand : {-50, 50}, temp_max : {30, 39}, flood_overall : {"Low", "High"}]

CoreContexts ==
    [temperature : {30, 31, 32, 33, 35, 36, 38, 39},
     energy_load : {4500, 5200, 5800},
     flood_risk : {"Low", "Medium", "High"},
     aqi : {80, 170, 250}]

\* contexts handed to one stage of the resolver (only energy_load is read)
StageContexts ==
    { EmptyDict } \cup { [energy_load |-> l] : l \in {4500, 5500, 5800, 6000, 6200} }

\* inputs with a value of a wrong type: which fields are affected, and the
\* action and context with a placeholder at those fields
WrongTypes == { {}, {"action.action"}, {"context.energy_load"}, {"context.aqi"} }

\* an action that lacks the "action" key (the name reads as "")
Unnamed ==
    [priority |-> "CRITICAL", zones |-> "Central", energy_impact_mw |-> 100,
     reason |-> <<"Operator request">>]

placeholders(d, fields) ==
    [k \in DOMAIN d |-> IF k \in DOMAIN fields THEN fields[k] ELSE d[k]]

malformed_action(a, bad) ==
    IF "action.action" \in bad
    THEN placeholders(a, [action |-> "<not a str>"]) ELSE a

malformed_context(c, bad) ==
    placeholders(c,
        (IF "context.energy_load" \in bad THEN [energy_load |-> 0] ELSE EmptyDict)
          @@ (IF "context.aqi" \in bad THEN [aqi |-> 0] ELSE EmptyDict))

\* the input record of one get_command_hub_status / forecast round
hub_inputs(w, d) ==
    [avg_temp |-> w.avg_temp, rand |-> d.rand, hour |-> w.hour,
     rainfall_1h |-> w.rainfall_1h, visibility |-> w.visibility,
     temp_max |-> d.temp_max, flood_overall |-> d.flood_overall]

NoResult == [none |-> TRUE]

(***************************************************************************)
(* Initial states                                                          *)
(***************************************************************************)
EngineIdle ==
    /\ malformed = {}
    /\ validation = NoResult /\ validated = <<>> /\ after_energy = <<>>
    /\ after_zone = <<>> /\ resolved = <<>> /\ rerun = <<>>

OrchIdle ==
    /\ agents = CoordinatorBrain_agents
    /\ SIMULATION_STATE = [extra_load |-> 0, active_interventions |-> <<>>]
    /\ clock = 0 /\ hub = NoResult /\ ran = <<>>
    /\ result = NoResult /\ result2 = NoResult /\ request = NoResult

\* the policy engine's entry points on a drawn candidate list and context
InitEngine ==
    /\ op = "init" /\ context \in Contexts /\ actions \in CandidateLists
    /\ EngineIdle /\ OrchIdle

\* a fresh process: coordinator constructed, module globals as imported
InitOrch ==
    /\ op = "init" /\ context = EmptyDict /\ actions = <<>>
    /\ EngineIdle /\ OrchIdle

\* lines 242-282 of orchestrate as a function of the context snapshot
InitCore ==
    /\ op = "init" /\ context \in CoreContexts /\ actions = <<>>
    /\ EngineIdle /\ OrchIdle

(***************************************************************************)
(* Actions: the policy engine                                              *)
(***************************************************************************)
\* validate_action(actions[0], context), for a one-action list
ValidateAction ==
    /\ op = "init" /\ Len(actions) = 1
    /\ validation' = validate_action(actions[1], context)
    /\ actions' = candidates_after(actions, context)
    /\ context' = context_after(actions, context)
    /\ op' = "validate_action"
    /\ UNCHANGED <<malformed, validated, after_energy, after_zone,
                   resolved, rerun, orch_vars>>

\* resolve_conflicts(actions, context); the working list after each stage
\* is kept for inspection
ResolveConflicts ==
    /\ op = "init"
    /\ validated' = validated_actions(actions, context)
    /\ after_energy' = resolve_energy_conflict(validated', context)
    /\ after_zone' = resolve_zone_conflict(after_energy', context)
    /\ resolved' = resolve_action_conflict(after_zone', context)
    /\ actions' = candidates_after(actions, context)
    /\ context' = context_after(actions, context)
    /\ op' = "resolve_conflicts"
    /\ UNCHANGED <<malformed, validation, rerun, orch_vars>>

\* resolve_conflicts(resolved, context): the resolver applied to its own output
ResolveAgain ==
    /\ op = "resolve_conflicts"
    /\ rerun' = resolve_conflicts(resolved, context)
    /\ resolved' = candidates_after(resolved, context)
    /\ context' = context_after(resolved, context)
    /\ op' = "resolve_again"
    /\ UNCHANGED <<malformed, actions, validation, validated, after_energy,
                   after_zone, orch_vars>>

NextEngine == ValidateAction \/ ResolveConflicts \/ ResolveAgain

SpecEngine == InitEngine /\ [][NextEngine]_vars

\* the policy engine's entry points on one action and a context, some of
\* whose fields may hold a value of a wrong type
InitMalformed ==
    /\ op = "init"
    /\ malformed \in WrongTypes
    /\ \E a \in Pool \cup {Unnamed} :
          /\ "action.action" \in malformed => "action" \in DOMAIN a
          /\ actions = << malformed_action(a, malformed) >>
    /\ \E l \in Loads, q \in Aqis :
          context = malformed_context([energy_load |-> l, aqi |-> q], malformed)
    /\ validation = NoResult /\ validated = <<>> /\ after_energy = <<>>
    /\ after_zone = <<>> /\ resolved = <<>> /\ rerun = <<>>
    /\ OrchIdle

\* validate_action(actions[0], context): its return value, or the exception
ValidateMalformed ==
    /\ op = "init"
    /\ validation' = validate_outcome(actions[1], context, malformed)
    /\ op' = "validate_action"
    /\ UNCHANGED <<malformed, context, actions, validated, after_energy,
                   after_zone, resolved, rerun, orch_vars>>

\* resolve_conflicts(actions, context): its return value, or the exception
\* (kept in validation, the call that raised)
ResolveMalformed ==
    /\ op = "init"
    /\ IF resolve_raises(actions, context, malformed)
       THEN validation' = Raised /\ resolved' = resolved
       ELSE validation' = validation
              /\ resolved' = resolve_conflicts(actions, context)
    /\ op' = "resolve_conflicts"
    /\ UNCHANGED <<malformed, context, actions, validated, after_energy,
                   after_zone, rerun, orch_vars>>

NextMalformed == ValidateMalformed \/ ResolveMalformed

SpecMalformed == InitMalformed /\ [][NextMalformed]_vars

\* one stage of the resolver (a conflict rule's "resolve") on a drawn list
InitStages ==
    /\ op = "init" /\ context \in StageContexts /\ actions \in CandidateLists
    /\ EngineIdle /\ OrchIdle

\* _resolve_energy_conflict(actions, context)
EnergyStage ==
    /\ op = "init"
    /\ after_energy' = resolve_energy_conflict(actions, context)
    /\ op' = "energy_conflict"
    /\ UNCHANGED <<malformed, context, actions, validation, validated,
                   after_zone, resolved, rerun, orch_vars>>

\* _resolve_zone_conflict(actions, context)
ZoneStage ==
    /\ op = "init"
    /\ after_zone' = resolve_zone_conflict(actions, context)
    /\ op' = "zone_conflict"
    /\ UNCHANGED <<malformed, context, actions, validation, validated,
                   after_energy, resolved, rerun, orch_vars>>

\* _resolve_action_conflict(actions, context)
PairStage ==
    /\ op = "init"
    /\ resolved' = resolve_action_conflict(actions, context)
    /\ op' = "action_conflict"
    /\ UNCHANGED <<malformed, context, actions, validation, validated,
                   after_energy, after_zone, rerun, orch_vars>>

NextStages == EnergyStage \/ ZoneStage \/ PairStage

SpecStages == InitStages /\ [][NextStages]_vars

(***************************************************************************)
(* Actions: the coordinator.  A session is explored as: writes of the     *)
(* caller to the coordinator's agents and trigger_response calls, then an  *)
(* orchestrate call, then the same orchestrate call once more.             *)
(***************************************************************************)
Configuring == op \in {"init", "reconfigure", "trigger_response"}

reconfigurations(ags) ==
    (Len(ags) - Len(CoordinatorBrain_agents))
      + Cardinality({i \in DOMAIN ags : ags[i].status # "active"})

\* a caller assigns agents[i].status (the attribute Agent.__init__ sets)
SetStatus(i) ==
    /\ Configuring /\ reconfigurations(agents) < MaxReconfig
    /\ agents[i].status = "active"
    /\ agents' = [agents EXCEPT ![i].status = "inactive"]
    /\ op' = "reconfigure"
    /\ UNCHANGED <<malformed, context, actions, validation, validated, after_energy,
                   after_zone, resolved, rerun>>
    /\ request' = NoResult
    /\ UNCHANGED <<SIMULATION_STATE, clock, hub, ran, result, result2>>

\* a caller appends an agent of the base class Agent to coordinator.agents
AppendAgent(priority) ==
    /\ Configuring /\ reconfigurations(agents) < MaxReconfig
    /\ agents' = Append(agents, Agent("Agent", "Custom Agent", priority))
    /\ op' = "reconfigure"
    /\ UNCHANGED <<malformed, context, actions, validation, validated, after_energy,
                   after_zone, resolved, rerun>>
    /\ request' = NoResult
    /\ UNCHANGED <<SIMULATION_STATE, clock, hub, ran, result, result2>>

\* trigger_response(system, action, target)
TriggerResponse(system, action) ==
    /\ Configuring /\ clock < MaxClock
    /\ SIMULATION_STATE' = trigger_state(SIMULATION_STATE, system, action)
    /\ clock' = clock + 1
    /\ op' = "trigger_response"
    /\ UNCHANGED <<malformed, context, actions, validation, validated, after_energy,
                   after_zone, resolved, rerun>>
    /\ request' = [system |-> system, action |-> action]
    /\ UNCHANGED <<agents, hub, ran, result, result2>>

\* orchestrate(city, policy_engine) with w delivered by the collaborators
Orchestrate(w) ==
    /\ Configuring /\ clock < MaxClock
    /\ LET ctx == build_context(w, SIMULATION_STATE)
           run == agent_loop(visited_agents(agents), ctx, <<>>, <<>>, <<>>)
       IN  /\ context' = ctx
           /\ hub' = w
           /\ ran' = run.ran
           /\ actions' = run.all_actions
           /\ IF run.raised
              THEN UNCHANGED <<validated, after_energy, after_zone, resolved>>
              ELSE /\ validated' = validated_actions(run.all_actions, ctx)
                   /\ after_energy' = resolve_energy_conflict(validated', ctx)
                   /\ after_zone' = resolve_zone_conflict(after_energy', ctx)
                   /\ resolved' = resolve_action_conflict(after_zone', ctx)
           /\ result' = orchestrate_result("Mumbai", ctx, agents, clock + 1)
    /\ clock' = clock + 1
    /\ op' = "orchestrate"
    /\ request' = NoResult
    /\ UNCHANGED <<malformed, validation, rerun, agents, SIMULATION_STATE,
                   result2>>

\* the same call again: same arguments, same weather data and hour, same
\* SIMULATION_STATE and agents; the random draws d and the clock are new
OrchestrateAgain(d) ==
    /\ op = "orchestrate" /\ clock < MaxClock
    /\ LET w == hub_inputs(hub, d)
       IN  result2' = orchestrate_result("Mumbai",
                          build_context(w, SIMULATION_STATE), agents, clock + 1)
    /\ clock' = clock + 1
    /\ op' = "orchestrate_again"
    /\ UNCHANGED <<malformed, context, actions, validation, validated, after_energy,
                   after_zone, resolved, rerun>>
    /\ request' = NoResult
    /\ UNCHANGED <<agents, SIMULATION_STATE, hub, ran, result>>

NextOrch ==
    \/ \E i \in DOMAIN agents : SetStatus(i)
    \/ \E p \in {2} : AppendAgent(p)
    \/ \E system \in {"Cooling", "Flood", "Air"} : TriggerResponse(system, "Activate")
    \/ \E w \in Weather, d \in Draws : Orchestrate(hub_inputs(w, d))
    \/ \E d \in Draws : OrchestrateAgain(d)

SpecOrch == InitOrch /\ [][NextOrch]_vars

\* the hub and the coordinator as the endpoints drive them: trigger_response
\* calls and orchestrate runs of the constructed coordinator
NextHub ==
    \/ \E system \in {"Cooling", "Flood", "Air"} : TriggerResponse(system, "Activate")
    \/ \E w \in Weather, d \in Draws : Orchestrate(hub_inputs(w, d))

SpecHub == InitOrch /\ [][NextHub]_vars

\* the systems and actions a POST /trigger-response request names: the three
\* systems trigger_response knows, and one it does not
TriggerSystems == {"Cooling", "Flood", "Air", "Traffic"}

TriggerActions == {"Activate", "Boost"}

\* trigger_response(system, action, target) in a session of such calls only
TriggerResponseCall(system, action) ==
    /\ clock < MaxTriggers
    /\ SIMULATION_STATE' = trigger_state(SIMULATION_STATE, system, action)
    /\ request' = [system |-> system, action |-> action]
    /\ clock' = clock + 1
    /\ op' = "trigger_response"
    /\ UNCHANGED <<malformed, context, actions, validation, validated, after_energy,
                   after_zone, resolved, rerun>>
    /\ UNCHANGED <<agents, hub, ran, result, result2>>

NextTrigger ==
    \E system \in TriggerSystems, action \in TriggerActions :
        TriggerResponseCall(system, action)

SpecTrigger == InitOrch /\ [][NextTrigger]_vars

\* lines 242-282 of orchestrate applied to the drawn context snapshot
OrchestrateContext ==
    /\ op = "init"
    /\ LET run == agent_loop(visited_agents(agents), context, <<>>, <<>>, <<>>)
       IN  /\ ran' = run.ran
           /\ actions' = run.all_actions
           /\ validated' = validated_actions(run.all_actions, context)
           /\ after_energy' = resolve_energy_conflict(validated', context)
           /\ after_zone' = resolve_zone_conflict(after_energy', context)
           /\ resolved' = resolve_action_conflict(after_zone', context)
           /\ result' = orchestrate_result("Mumbai", context, agents, clock + 1)
    /\ clock' = clock + 1
    /\ op' = "orchestrate"
    /\ request' = NoResult
    /\ UNCHANGED <<malformed, context, validation, rerun, agents,
                   SIMULATION_STATE, hub, result2>>

NextCore == OrchestrateContext

SpecCore == InitCore /\ [][NextCore]_vars

(***************************************************************************)
(* Properties                                                              *)
(***************************************************************************)
Resolved == op \in {"resolve_conflicts", "resolve_again"}

\* energy capacity left under the context, as the capacity stage computes it
available_capacity(ctx) == max_capacity - stage_current_load(ctx)

all_safe(ctx) == \A j \in 1..Len(safety_checks) : check(safety_checks[j].id, ctx)

\* C1: the list resolve_conflicts returns (after the capacity, zone and
\* action-pair stages) has a total energy impact of at most the available
\* capacity, unless it holds a CRITICAL action clipped to exactly the
\* available capacity and marked scope_reduced.
C1_CapacityInvariant ==
    (op \in {"resolve_conflicts", "orchestrate"} /\ resolved # <<>>) =>
        \/ SumImpact(resolved) <= available_capacity(context)
        \/ \E i \in DOMAIN resolved :
              /\ Get(resolved[i], "priority", "") = "CRITICAL"
              /\ Get(resolved[i], "scope_reduced", FALSE)
              /\ Get(resolved[i], "energy_impact_mw", 0) = available_capacity(context)

\* C2: the list resolve_conflicts returns holds at most one member of each
\* registered mutually exclusive pair of action names.
C2_PairExclusivity ==
    Resolved =>
        \A pair \in conflicts :
            ~ /\ \E i \in DOMAIN resolved : Get(resolved[i], "action", "") = pair[1]
              /\ \E j \in DOMAIN resolved : Get(resolved[j], "action", "") = pair[2]

\* C3: validate_action returns valid = true for every action that matches
\* a policy whose effect is ALLOW, also when a BLOCK or DEFER policy matches
\* it (checked where every safety check passes, so that only the policies
\* decide).
C3_AllowOverrides ==
    (/\ op = "validate_action"
     /\ all_safe(context)
     /\ \E i \in DOMAIN policies :
           /\ policies[i].action = "ALLOW"
           /\ condition(policies[i].id, context, actions[1]))
    => validation.valid

\* C4: no two actions of the list resolve_conflicts returns have the same
\* zone key.
C4_ZoneUniqueness ==
    (Resolved \/ op = "orchestrate") =>
        \A i, j \in DOMAIN resolved :
            i # j => zone_of(resolved[i]) # zone_of(resolved[j])

\* C4 witness: two candidates with one zone key both pass validation and
\* the capacity stage, and more than one action is returned.
C4_Witness ==
    /\ op = "resolve_conflicts"
    /\ \E i, j \in DOMAIN after_energy :
          i # j /\ zone_of(after_energy[i]) = zone_of(after_energy[j])
    /\ Len(resolved) >= 2

\* C5: resolve_conflicts applied to its own output under the same context
\* returns that output unchanged (same actions, order and field values).
C5_Idempotent == op = "resolve_again" => rerun = resolved

\* C6: two orchestrate calls with identical arguments (and identical weather
\* data, hour, agents and SIMULATION_STATE) return identical results.
C6_Deterministic == op = "orchestrate_again" => result2 = result

\* the orchestration run of a hot day on a grid at 96.7% utilization, with
\* flood risk and AQI benign and no forecasts
C7_Case ==
    /\ op = "orchestrate"
    /\ context = [temperature |-> 39, energy_load |-> 5800,
                  flood_risk |-> "Low", aqi |-> 80]

\* C7 as stated: the run with temperature 39 and energy_load 5800 ends with
\* an empty resolved action set.
C7_EmptyResolved == C7_Case => result.resolved_actions = <<>>

\* C7 amended: in that run cooling_during_peak defers the Heat agent's
\* cooling action, and the resolved set is exactly the Energy agent's
\* REDUCE_NON_CRITICAL_LOAD action (-200 MW), unclipped.
C7_CoolingDeferred ==
    C7_Case =>
        /\ Len(actions) = 2
        /\ actions[1].action = "ACTIVATE_ALL_COOLING"
        /\ validate_action(actions[1], context) =
              [valid |-> FALSE, action |-> "DEFER",
               reason |-> "Peak energy load - defer cooling to avoid grid overload"]
        /\ validated = <<actions[2]>>
        /\ result.resolved_actions = EnergyAgent_get_actions("Critical", 5800)
        /\ result.total_energy_impact_mw = -200
        /\ result.conflicts_detected = 1

\* C7 witness: the run has happened, both agents have recommended, and one
\* action is left
C7_Witness ==
    /\ C7_Case
    /\ ran = <<"Heat Agent", "Flood Agent", "AQI Agent", "Energy Agent">>
    /\ Len(actions) = 2 /\ Len(result.resolved_actions) = 1

\* C8: when one agent's analyze raises, orchestrate still returns a result,
\* in which that agent's status is degraded and the resolved actions are
\* those of the other agents' recommendations.
C8_FailSoft ==
    (op = "orchestrate" /\ \E i \in DOMAIN agents : analyze_raises(agents[i])) =>
        /\ "resolved_actions" \in DOMAIN result
        /\ \A i \in DOMAIN agents :
              analyze_raises(agents[i]) => result.agents[i].status = "degraded"
        /\ result.resolved_actions =
              resolve_conflicts(
                  agent_loop(SelectSeq(sorted_agents(agents),
                                       LAMBDA a : ~ analyze_raises(a)),
                             context, <<>>, <<>>, <<>>).all_actions,
                  context)

\* C9: orchestrate does not run the analyze of an agent whose status is
\* inactive; the agents it runs are the active ones in priority order.
C9_InactiveSkipped ==
    (op = "orchestrate" /\ \A i \in DOMAIN agents : ~ analyze_raises(agents[i])) =>
        ran = [i \in 1..Len(SelectSeq(sorted_agents(agents),
                                      LAMBDA a : a.status = "active")) |->
                 SelectSeq(sorted_agents(agents),
                           LAMBDA a : a.status = "active")[i].name]

\* C10: the capacity stage works with available capacity
\* context.max_energy_capacity (6000 when absent) minus context.energy_load.
C10_ContextCapacity ==
    op = "resolve_conflicts" =>
        after_energy =
            energy_conflict(validated,
                Get(context, "max_energy_capacity", 6000)
                    - Get(context, "energy_load", 4500))

\* some safety check fails on the context: energy_load not below 6000,
\* system_health not operational, or sensor_connectivity not above 0.8
C11_Unsafe ==
    \/ Get(context, "energy_load", 0) >= 6000
    \/ Get(context, "system_health", "operational") # "operational"
    \/ Get(context, "sensor_connectivity", 95) <= 80

\* C11: under a context on which a safety check fails, validate_action
\* reports valid = false for every action and resolve_conflicts returns the
\* empty list for every candidate list.
C11_SafetyFailInvalidates ==
    C11_Unsafe =>
        /\ op = "validate_action" => ~ validation.valid
        /\ op = "resolve_conflicts" => resolved = <<>>

\* C11 witness: resolve_conflicts has returned under such a context, on a
\* list whose first action passes every policy of that context
C11_Witness ==
    /\ C11_Unsafe /\ op = "resolve_conflicts" /\ Len(actions) >= 2
    /\ Get(validate_action(actions[1], context), "violations", <<"deferred">>) = <<>>
    /\ resolved = <<>>

\* C12: in every orchestration result, conflicts_detected is the number of
\* candidate actions the agents emitted minus the number of resolved
\* actions, and is not negative.
C12_ConflictsDetected ==
    (op = "orchestrate" /\ "conflicts_detected" \in DOMAIN result) =>
        /\ result.conflicts_detected = Len(actions) - Len(result.resolved_actions)
        /\ result.conflicts_detected >= 0

\* C12 witness: a run in which the agents emitted candidates, validation
\* turned one away and the stages dropped another
C12_Witness ==
    /\ op = "orchestrate" /\ "conflicts_detected" \in DOMAIN result
    /\ Len(validated) < Len(actions)
    /\ Len(result.resolved_actions) < Len(validated)
    /\ result.resolved_actions # <<>>

\* the orchestration run of a hot day on a grid at 75% utilization, with
\* flood risk and AQI benign and no forecasts
C13_Case ==
    /\ op = "orchestrate"
    /\ context = [temperature |-> 39, energy_load |-> 4500,
                  flood_risk |-> "Low", aqi |-> 80]

\* C13: the run with temperature 39 and energy_load 4500 yields exactly one
\* resolved action, ACTIVATE_ALL_COOLING (CRITICAL, 300 MW), which no policy
\* blocks, defers or modifies; the total energy impact is 300.
C13_CoolingResolved ==
    C13_Case =>
        /\ Len(result.resolved_actions) = 1
        /\ result.resolved_actions[1].action = "ACTIVATE_ALL_COOLING"
        /\ result.resolved_actions[1].priority = "CRITICAL"
        /\ result.resolved_actions[1].energy_impact_mw = 300
        /\ "scope_reduced" \notin DOMAIN result.resolved_actions[1]
        /\ validate_action(actions[1], context).valid
        /\ validate_action(actions[1], context).violations = <<>>
        /\ validate_action(actions[1], context).modifications = <<>>
        /\ result.total_energy_impact_mw = 300

\* C13 witness: the run has happened and the Heat agent alone has recommended
C13_Witness ==
    /\ C13_Case
    /\ ran = <<"Heat Agent", "Flood Agent", "AQI Agent", "Energy Agent">>
    /\ Len(actions) = 1 /\ result.conflicts_detected = 0

\* the context of the current run, had no trigger_response call been made
C14_FreshContext ==
    build_context(hub, [extra_load |-> 0, active_interventions |-> <<>>])

\* C14 as stated: trigger_response calls made before a run change neither
\* the energy_load the agents and the policy engine see nor the resolved
\* action set.
C14_NoAmbientState ==
    op = "orchestrate" =>
        /\ context.energy_load = C14_FreshContext.energy_load
        /\ result.resolved_actions =
              orchestrate_result("Mumbai", C14_FreshContext, agents, clock)
                  .resolved_actions

\* C14 amended: the agents and the policy engine work on the context
\* snapshot of the run alone, and that snapshot's energy_load is the hub's
\* demand plus SIMULATION_STATE.extra_load, the load trigger_response calls
\* have accumulated; every other context field is as without those calls.
C14_SnapshotCarriesExtraLoad ==
    op = "orchestrate" =>
        /\ context.energy_load =
              C14_FreshContext.energy_load + SIMULATION_STATE.extra_load
        /\ context = With(C14_FreshContext, "energy_load", context.energy_load)
        /\ actions = agent_loop(sorted_agents(agents), context,
                                <<>>, <<>>, <<>>).all_actions
        /\ result.resolved_actions = resolve_conflicts(actions, context)
        /\ result.resolved_actions = resolved

\* C14 witness: a run after trigger_response calls whose resolved actions
\* differ from those of the same run without the calls
C14_Witness ==
    /\ op = "orchestrate" /\ SIMULATION_STATE.extra_load > 0
    /\ result.resolved_actions # <<>>
    /\ result.resolved_actions #
          orchestrate_result("Mumbai", C14_FreshContext, agents, clock)
              .resolved_actions

\* C15: a policy or safety predicate that raises on a malformed action or
\* context counts as a non-match: validate_action and resolve_conflicts
\* return a result and the error does not leave them.
C15_PredicateErrorsContained ==
    op \in {"validate_action", "resolve_conflicts"} =>
        /\ "raised" \notin DOMAIN validation
        /\ op = "validate_action" => "valid" \in DOMAIN validation

\* the capacity stage has run on a non-empty `actions` whose total impact
\* exceeds the available capacity, so that some action overflows
C16_Overflow ==
    /\ op = "energy_conflict"
    /\ actions # <<>>
    /\ SumImpact(actions) > available_capacity(context)

\* actions in rank order CRITICAL, HIGH, MEDIUM, LOW, ties in input order
by_rank(as) ==
    LET Rank(r) == SelectSeq(as, LAMBDA a : priority_order(a) = r)
    IN  Rank(0) \o Rank(1) \o Rank(2) \o Rank(3)

\* index of the first action of s that would overflow the capacity
first_overflow(s, available) ==
    CHOOSE k \in 1..Len(s) :
        /\ SumImpact(SubSeq(s, 1, k)) > available
        /\ \A j \in 1..(k - 1) : SumImpact(SubSeq(s, 1, j)) <= available

clipped(a, impact) ==
    With(With(a, "energy_impact_mw", impact), "scope_reduced", TRUE)

\* C16: when the first action that would overflow is not CRITICAL, the
\* capacity stage drops it and every action after it in sorted order.
C16_NonCriticalOverflowStops ==
    LET s == by_rank(actions)
        k == first_overflow(s, available_capacity(context))
    IN  (C16_Overflow /\ Get(s[k], "priority", "") # "CRITICAL") =>
            after_energy = SubSeq(s, 1, k - 1)

\* C17: when the first action that would overflow is CRITICAL, the capacity
\* stage accepts it with impact available minus the running total and
\* scope_reduced = true, and drops every action after it in sorted order.
C17_CriticalOverflowClipped ==
    LET s == by_rank(actions)
        available == available_capacity(context)
        k == first_overflow(s, available)
    IN  (C16_Overflow /\ Get(s[k], "priority", "") = "CRITICAL") =>
            after_energy =
                Append(SubSeq(s, 1, k - 1),
                       clipped(s[k], available - SumImpact(SubSeq(s, 1, k - 1))))

\* C17 witness: [CRITICAL/300, CRITICAL/250, HIGH/150] with 500 MW available
\* gives [300, 200 with scope_reduced]
C17_Witness ==
    /\ C16_Overflow /\ available_capacity(context) = 500
    /\ Len(actions) = 3
    /\ [i \in 1..3 |-> actions[i].priority] = <<"CRITICAL", "CRITICAL", "HIGH">>
    /\ [i \in 1..3 |-> actions[i].energy_impact_mw] = <<300, 250, 150>>
    /\ after_energy = <<actions[1], clipped(actions[2], 200)>>

\* C18: given both members of a registered mutually exclusive pair, the
\* action-pair stage keeps the higher-priority member and drops the other;
\* actions outside a conflicting pair pass through in their order.
C18_PairKeepsHigher ==
    op = "action_conflict" =>
        /\ \A pair \in conflicts : \A i, j \in DOMAIN actions :
              (/\ {actions[i].action, actions[j].action} = {pair[1], pair[2]}
               /\ priority_order(actions[i]) < priority_order(actions[j]))
              => \A n \in DOMAIN resolved : resolved[n] # actions[j]
        /\ LET in_pair(a) ==
                   \E pair \in conflicts :
                       /\ a.action \in {pair[1], pair[2]}
                       /\ \E b \in DOMAIN actions :
                             actions[b].action \in {pair[1], pair[2]} \ {a.action}
           IN  SelectSeq(resolved, LAMBDA a : ~ in_pair(a))
                   = SelectSeq(actions, LAMBDA a : ~ in_pair(a))

\* the zone keys of a list
zones_of(as) == { zone_of(as[i]) : i \in DOMAIN as }

\* the member of zone z the zone stage is to keep: the first, in input
\* order, among those of the best priority rank
zone_best(as, z) ==
    LET group == { i \in DOMAIN as : zone_of(as[i]) = z }
        top == { i \in group : \A j \in group :
                     priority_order(as[i]) <= priority_order(as[j]) }
    IN  as[CHOOSE i \in top : \A j \in top : i <= j]

\* C19: the zone stage keeps, for every zone key of its input, exactly the
\* highest-priority member of that group (on equal priority the first in
\* input order) and nothing else; a group of one passes through.
C19_ZoneKeepsBest ==
    op = "zone_conflict" =>
        /\ \A n \in DOMAIN after_zone : zone_of(after_zone[n]) \in zones_of(actions)
        /\ \A z \in zones_of(actions) :
              SelectSeq(after_zone, LAMBDA a : zone_of(a) = z)
                  = << zone_best(actions, z) >>

\* C19 witness: MEDIUM PREPARE_BARRIERS ahead of CRITICAL
\* RAISE_COASTAL_BARRIERS, both on 'Coastal zones', leaves the CRITICAL one
C19_Witness ==
    /\ op = "zone_conflict" /\ Len(actions) >= 2
    /\ actions[1].action = "PREPARE_BARRIERS" /\ actions[1].priority = "MEDIUM"
    /\ actions[2].action = "RAISE_COASTAL_BARRIERS"
    /\ actions[2].priority = "CRITICAL"
    /\ zone_of(actions[1]) = "Coastal zones" /\ zone_of(actions[2]) = "Coastal zones"
    /\ SelectSeq(after_zone, LAMBDA a : zone_of(a) = "Coastal zones")
          = << actions[2] >>

\* e is a, or a clipped to e's impact
same_action(e, a) ==
    \/ e = a
    \/ /\ Get(e, "scope_reduced", FALSE)
       /\ e = clipped(a, Get(e, "energy_impact_mw", 0))

\* out is s with some actions left out (and possibly one clipped)
RECURSIVE is_selection(_, _)
is_selection(out, s) ==
    IF out = <<>> THEN TRUE
    ELSE IF s = <<>> THEN FALSE
    ELSE IF same_action(Head(out), Head(s))
         THEN is_selection(Tail(out), Tail(s))
         ELSE is_selection(out, Tail(s))

\* C20: the capacity stage returns its input unchanged when the total impact
\* is at most the available capacity; otherwise it goes through the actions
\* in rank order CRITICAL, HIGH, MEDIUM, LOW, ties in input order, and the
\* running total of the accepted impacts never exceeds the available
\* capacity.
C20_CapacityStage ==
    op = "energy_conflict" =>
        IF SumImpact(actions) <= available_capacity(context)
        THEN after_energy = actions
        ELSE /\ is_selection(after_energy, by_rank(actions))
             /\ \A n \in 1..Len(after_energy) :
                   SumImpact(SubSeq(after_energy, 1, n))
                       <= available_capacity(context)

\* C20 witness: an overflow on a list that is not in rank order, of which
\* the stage accepts at least two actions and drops one
C20_Witness ==
    /\ C16_Overflow
    /\ by_rank(actions) # actions
    /\ Len(after_energy) >= 2 /\ Len(after_energy) < Len(actions)
    /\ priority_order(after_energy[1]) < priority_order(after_energy[2])

\* some policy of the given effect matches the action under the context
matches(effect, action, ctx) ==
    \E i \in DOMAIN policies :
        /\ policies[i].action = effect
        /\ condition(policies[i].id, ctx, action)

\* e is candidate a as the resolver can return it: a itself or a after the
\* MODIFY transform, possibly clipped by the capacity stage
derived_from(e, a) == same_action(e, a) \/ same_action(e, modification(a))

\* the action is deferred: a DEFER policy matches it and no ALLOW policy does
C21_Deferred(action, ctx) ==
    matches("DEFER", action, ctx) /\ ~matches("ALLOW", action, ctx)

\* C21: for an action that a DEFER policy matches and no ALLOW policy
\* matches, validate_action returns at once valid = false with the tag
\* action = "DEFER" and no violations, modifications or safety check
\* results, and resolve_conflicts returns no action derived from it.
C21_DeferReturnsAtOnce ==
    /\ (op = "validate_action" /\ C21_Deferred(actions[1], context)) =>
          /\ validation.valid = FALSE
          /\ DOMAIN validation
                \cap {"violations", "modifications", "safety_checks"} = {}
          /\ validation.action = "DEFER"
    /\ op = "resolve_conflicts" =>
          \A i \in DOMAIN actions :
              C21_Deferred(actions[i], context) =>
                  \A j \in DOMAIN resolved : ~derived_from(resolved[j], actions[i])

\* C21 witness: a resolve_conflicts run that defers one candidate and
\* returns another
C21_Witness ==
    /\ op = "resolve_conflicts"
    /\ \E i \in DOMAIN actions : C21_Deferred(actions[i], context)
    /\ resolved # <<>>

\* the action is blocked: a BLOCK policy matches it, no ALLOW and no DEFER
\* policy does
C22_Blocked(action, ctx) ==
    /\ matches("BLOCK", action, ctx)
    /\ ~matches("ALLOW", action, ctx)
    /\ ~matches("DEFER", action, ctx)

\* position of the policy with the given id in the declared policy list
policy_index(id) == CHOOSE i \in DOMAIN policies : policies[i].id = id

\* C22: for an action that a BLOCK policy matches and no ALLOW or DEFER
\* policy matches, validate_action returns valid = false with one violation
\* per matching BLOCK policy, in declared policy order, and resolve_conflicts
\* returns no action derived from it.
C22_BlockInvalidates ==
    /\ (op = "validate_action" /\ C22_Blocked(actions[1], context)) =>
          LET violations == validation.violations
              blocking == { i \in DOMAIN policies :
                              /\ policies[i].action = "BLOCK"
                              /\ condition(policies[i].id, context, actions[1]) }
          IN  /\ validation.valid = FALSE
              /\ Len(violations) = Cardinality(blocking)
              /\ { policy_index(violations[k].policy_id) :
                     k \in DOMAIN violations } = blocking
              /\ \A k, l \in DOMAIN violations :
                    k < l => policy_index(violations[k].policy_id)
                               < policy_index(violations[l].policy_id)
    /\ op = "resolve_conflicts" =>
          \A i \in DOMAIN actions :
              C22_Blocked(actions[i], context) =>
                  \A j \in DOMAIN resolved : ~derived_from(resolved[j], actions[i])

\* C22 witness: LOWER_COASTAL_BARRIERS validated while a
\* RAISE_COASTAL_BARRIERS is among the pending actions, with one violation
C22_Witness ==
    /\ op = "validate_action"
    /\ C22_Blocked(actions[1], context)
    /\ actions[1].action = "LOWER_COASTAL_BARRIERS"
    /\ Len(validation.violations) = 1
    /\ validation.violations[1].policy_id = "conflicting_barriers"

\* the action is modified: aqi_cooling_conflict matches it and it is not
\* deferred
C23_Modified(action, ctx) ==
    /\ HasCooling(Get(action, "action", ""))
    /\ Get(ctx, "aqi", 0) > 200
    /\ ~matches("DEFER", action, ctx)

\* C23: for an action that aqi_cooling_conflict matches and that is not
\* deferred, validate_action returns the action with the name
\* ACTIVATE_COOLING_WITH_AIR_FILTER, the reason extended once by
\* " (with air filtration)", every other field unchanged, and exactly one
\* modification recorded: the transformed action (whose name still contains
\* COOLING) is not passed through the policies again.
C23_ModifiedOnce ==
    (op = "validate_action" /\ C23_Modified(actions[1], context)) =>
        LET out == validation.action
            in == actions[1]
        IN  /\ out.action = "ACTIVATE_COOLING_WITH_AIR_FILTER"
            /\ out.reason = in.reason \o <<" (with air filtration)">>
            /\ DOMAIN out = DOMAIN in
            /\ \A k \in DOMAIN in \ {"action", "reason"} : out[k] = in[k]
            /\ Len(validation.modifications) = 1
            /\ validation.modifications[1].policy_id = "aqi_cooling_conflict"

\* C23 witness: ACTIVATE_PRIORITY_COOLING validated at AQI 250 below the
\* peak load, returned as a valid modified action
C23_Witness ==
    /\ op = "validate_action"
    /\ C23_Modified(actions[1], context)
    /\ actions[1].action = "ACTIVATE_PRIORITY_COOLING"
    /\ validation.valid
    /\ validation.action.priority = "HIGH"
    /\ validation.action.energy_impact_mw = 150

\* an orchestrate run on a context without a temperature forecast
C24_NoForecast == op = "orchestrate" /\ "temp_forecast" \notin DOMAIN context

\* the risk level the Heat agent reported in the last orchestrate run
C24_HeatRisk ==
    LET heat == CHOOSE i \in DOMAIN result.agents :
                    result.agents[i].name = "Heat Agent"
    IN  result.agents[heat].analysis.risk_level

\* C24: with no forecast in the context the Heat agent's risk level is Low
\* below 32, Medium from 32 up to (not including) 35, High from 35 up to
\* (not including) 38 and Critical from 38 on.
C24_ThresholdsInclusive ==
    C24_NoForecast =>
        C24_HeatRisk = (IF context.temperature < 32 THEN "Low"
                        ELSE IF context.temperature < 35 THEN "Medium"
                        ELSE IF context.temperature < 38 THEN "High"
                        ELSE "Critical")

\* C24 as the code has it: with no forecast in the context the risk level
\* is Low up to and including 32, Medium above 32 up to and including 35,
\* High above 35 up to and including 38, and Critical above 38.
C24_ThresholdsStrict ==
    C24_NoForecast =>
        C24_HeatRisk = (IF context.temperature <= 32 THEN "Low"
                        ELSE IF context.temperature <= 35 THEN "Medium"
                        ELSE IF context.temperature <= 38 THEN "High"
                        ELSE "Critical")

\* C24 witness: a run at exactly 38 degrees, reported as High
C24_Witness ==
    /\ C24_NoForecast
    /\ context.temperature = 38
    /\ C24_HeatRisk = "High"

\* positions of the candidates that validate_action accepts
accepted(as, ctx) == { i \in DOMAIN as : validate_action(as[i], ctx).valid }

\* C25: every action resolve_conflicts returns comes from a candidate that
\* validate_action accepted, no candidate is returned twice, a returned
\* action is the candidate as validate_action returned it (the MODIFY
\* transform applied if it matched) or that action clipped by the capacity
\* stage, and the output is not longer than the input.  The order of the
\* output is the resolver's, not the candidates'.
C25_NothingInvented ==
    op = "resolve_conflicts" =>
        LET acc == accepted(actions, context)
            nth(i) == Cardinality({ k \in acc : k <= i })
        IN  /\ Len(resolved) <= Len(actions)
            \* the validated list is the accepted candidates, as validated
            /\ Len(validated) = Cardinality(acc)
            /\ \A i \in acc :
                  validated[nth(i)] = validate_action(actions[i], context).action
            \* each returned action takes a validated action of its own
            /\ \E f \in [DOMAIN resolved -> DOMAIN validated] :
                  /\ \A j, k \in DOMAIN resolved : j # k => f[j] # f[k]
                  /\ \A j \in DOMAIN resolved :
                        same_action(resolved[j], validated[f[j]])

\* C25 witness: a run that drops a candidate and returns an action that
\* equals none of the candidates (modified or clipped)
C25_Witness ==
    /\ op = "resolve_conflicts"
    /\ resolved # <<>> /\ Len(resolved) < Len(actions)
    /\ \E j \in DOMAIN resolved :
          \A i \in DOMAIN actions : resolved[j] # actions[i]

\* number of occurrences of action a in the list s
occurrences(s, a) == Cardinality({ i \in DOMAIN s : s[i] = a })

\* the capacity stage returned a clipped action
C26_Clipped ==
    \E j \in DOMAIN after_energy : Get(after_energy[j], "scope_reduced", FALSE)

\* C26: with available capacity of at least 0 the capacity stage accepts
\* every action of negative impact, except those that stand after the
\* clipped CRITICAL action in rank order.
C26_LoadReductionAccepted ==
    (op = "energy_conflict" /\ available_capacity(context) >= 0) =>
        LET s == by_rank(actions)
            negative(a) == Get(a, "energy_impact_mw", 0) < 0
        IN  IF ~C26_Clipped
            THEN \A i \in DOMAIN actions :
                    negative(actions[i]) =>
                        occurrences(after_energy, actions[i])
                            = occurrences(actions, actions[i])
            ELSE LET n == Len(after_energy)
                     kept == SubSeq(after_energy, 1, n - 1)
                 IN  \E c \in DOMAIN s :
                        /\ after_energy[n]
                             = clipped(s[c], after_energy[n].energy_impact_mw)
                        /\ is_selection(kept, SubSeq(s, 1, c - 1))
                        /\ \A k \in 1..(c - 1) :
                              negative(s[k]) =>
                                  occurrences(kept, s[k])
                                      = occurrences(SubSeq(s, 1, c - 1), s[k])

\* C26 witness: an overflow without a clip in which an action of higher
\* priority is dropped and a load-reducing action after it is accepted
C26_Witness ==
    /\ C16_Overflow /\ available_capacity(context) >= 0
    /\ ~C26_Clipped
    /\ Len(after_energy) < Len(actions)
    /\ \E j \in DOMAIN after_energy :
          /\ after_energy[j].energy_impact_mw < 0
          /\ \E i \in DOMAIN actions :
                /\ priority_order(actions[i]) < priority_order(after_energy[j])
                /\ occurrences(after_energy, actions[i]) = 0

\* C27: of the actions the capacity stage returns (for candidates that carry
\* no scope_reduced flag) at most one is marked scope_reduced; it is
\* CRITICAL, it is the last one, its impact is strictly less than the impact
\* of the candidate it was made from, and the total impact of the output is
\* then exactly the available capacity.
C27_OneClipAtEnd ==
    op = "energy_conflict" =>
        LET n == Len(after_energy)
            marked == { j \in DOMAIN after_energy :
                          Get(after_energy[j], "scope_reduced", FALSE) }
        IN  /\ Cardinality(marked) <= 1
            /\ \A j \in marked :
                  /\ j = n
                  /\ Get(after_energy[j], "priority", "") = "CRITICAL"
                  /\ \E i \in DOMAIN actions :
                        /\ after_energy[j]
                             = clipped(actions[i], after_energy[j].energy_impact_mw)
                        /\ after_energy[j].energy_impact_mw
                             < Get(actions[i], "energy_impact_mw", 0)
                  /\ SumImpact(after_energy) = available_capacity(context)

\* C27 witness: a clip behind two accepted actions of which one reduces the
\* load, so that the clipped impact is not the available capacity itself
C27_Witness ==
    /\ op = "energy_conflict"
    /\ Len(after_energy) = 3
    /\ Get(after_energy[3], "scope_reduced", FALSE)
    /\ after_energy[3].energy_impact_mw # available_capacity(context)
    /\ \E j \in 1..2 : after_energy[j].energy_impact_mw < 0

C29_SameLoad ==
    op = "resolve_conflicts" =>
        /\ policy_load(context) = stage_current_load(context)
        /\ safety_load(context) = stage_current_load(context)

\* C30: the active_interventions list holds at most 3 descriptions and no
\* description twice; a trigger_response call adds its system's load impact
\* (150 Cooling, 300 Flood, 200 Air, nothing for another system) to
\* extra_load, also when its description is already listed, so that
\* extra_load never decreases; a description that was not listed is put
\* first, and a listed one leaves the list as it was.
C30_InterventionsAndLoad ==
    /\ [](LET listing == SIMULATION_STATE.active_interventions
          IN  /\ Len(listing) <= 3
              /\ \A i, j \in DOMAIN listing : i # j => listing[i] # listing[j])
    /\ [][ op' = "trigger_response" =>
             LET before == SIMULATION_STATE
                 after == SIMULATION_STATE'
                 desc == <<request'.system, request'.action>>
                 impact == CASE request'.system = "Cooling" -> 150
                             [] request'.system = "Flood" -> 300
                             [] request'.system = "Air" -> 200
                             [] OTHER -> 0
             IN  /\ after.extra_load = before.extra_load + impact
                 /\ after.extra_load >= before.extra_load
                 /\ IF \E i \in DOMAIN before.active_interventions :
                          before.active_interventions[i] = desc
                    THEN after.active_interventions = before.active_interventions
                    ELSE after.active_interventions[1] = desc ]_vars

\* C30 witness: a call repeats a description that is listed behind the
\* first place, in a full list from which an "Air" description has been
\* pushed out (the load still holds its 200 MW)
C30_Witness ==
    LET listing == SIMULATION_STATE.active_interventions
    IN  /\ op = "trigger_response"
        /\ Len(listing) = 3
        /\ \A i \in DOMAIN listing : listing[i][1] # "Air"
        /\ SIMULATION_STATE.extra_load % 150 = 50
        /\ \E i \in 2..3 : listing[i] = <<request.system, request.action>>

====
